---- MODULE Spec2Model ----
(***************************************************************************)
(* Contact form of the portfolio site.                                     *)
(*                                                                         *)
(*   src/api/contact.js      the serverless submission handler.  The file  *)
(*                           defines the handler, sendEmail and            *)
(*                           buildAutoReplyHtml twice (lines 1-183 and     *)
(*                           lines 236-447); the second handler is the one *)
(*                           the module ends up exporting.  Both are       *)
(*                           modelled, each with the sendEmail and         *)
(*                           buildAutoReplyHtml that follow it; the field  *)
(*                           "def" of an invocation says which one runs.   *)
(*   src/unnamed/part_000    the form client that posts to /api/contact    *)
(*   src/js/contact.js       the form client that calls emailjs.send       *)
(*                                                                         *)
(* Strings that the code inspects (trim, regular expression, truthiness)   *)
(* are sequences of one-character strings; a fixed text that is only       *)
(* passed on is a sequence of one element.  A step of the model is one     *)
(* turn of the JavaScript event loop: a handler or listener runs from its  *)
(* entry, or from the await it was suspended at, to its next await or its  *)
(* return.                                                                 *)
(***************************************************************************)
EXTENDS Integers, Sequences, FiniteSets, TLC

VARIABLES
    env,        \* process.env: the five EmailJS settings of the deployment
    inv,        \* the handler invocations, one record per slot
    ver,        \* which form client the page loads: "fetch" or "emailjs"
    fields,     \* the value of the four inputs of #contactForm
    submitBtn,  \* the submit control: innerHTML, disabled, style.background
    toast,      \* the .form-toast element on the page, if any
    listeners,  \* the runs of the submit listener that are suspended at an await
    timers,     \* the pending 3000 ms timeouts, each with the originalHTML it captured
    last        \* the last event dispatched and the number of network calls it issued

hvars == <<env, inv>>
cvars == <<ver, fields, submitBtn, toast, listeners, timers, last>>
vars == <<env, inv, ver, fields, submitBtn, toast, listeners, timers, last>>

\* invocations that can be in progress at the same time
NumSlots == 2

\* runs of the submit listener that can be suspended at the same time
MaxListeners == 2

-----------------------------------------------------------------------------
(* JavaScript values of the request body and of process.env *)

Undefined == [t |-> "undefined"]
Str(s) == [t |-> "string", s |-> s]
Num(n) == [t |-> "number", n |-> n]
Bool(b) == [t |-> "boolean", b |-> b]

\* ToBoolean: what `!x` and `x || y` look at
Truthy(v) ==
    CASE v.t = "undefined" -> FALSE
      [] v.t = "string"    -> v.s # <<>>
      [] v.t = "number"    -> v.n # 0
      [] v.t = "boolean"   -> v.b
      [] v.t = "object"    -> TRUE

\* mutation of OrElse: the left operand is taken whatever it is
OrElse_Left(v, w) == v

\* x || y
OrElse(v, w) == IF Truthy(v) THEN v ELSE w

-----------------------------------------------------------------------------
(* Characters and the email pattern /^[^\s@]+@[^\s@]+\.[^\s@]+$/ *)

WhiteSpace == {" "}

\* mutation of trim: the value is used as typed
trim_AsTyped(s) == s

\* String.prototype.trim(): drop the white space at both ends
trim(s) ==
    LET keep == {k \in 1..Len(s) : s[k] \notin WhiteSpace}
    IN  IF keep = {} THEN <<>>
        ELSE SubSeq(s, CHOOSE a \in keep : \A k \in keep : a <= k,
                       CHOOSE b \in keep : \A k \in keep : b >= k)

\* [^\s@]
NotSpaceAt(c) == c \notin WhiteSpace /\ c # "@"

\* [^\s@]+ on s[a..b]
Run(s, a, b) == a <= b /\ \A k \in a..b : NotSpaceAt(s[k])

\* emailRegex.test(s): some "@" at i and some "." at j split s into three runs
emailRegexTest(s) ==
    \E i \in 1..Len(s) : \E j \in 1..Len(s) :
        /\ i < j
        /\ s[i] = "@"
        /\ s[j] = "."
        /\ Run(s, 1, i - 1)
        /\ Run(s, i + 1, j - 1)
        /\ Run(s, j + 1, Len(s))

-----------------------------------------------------------------------------
(* process.env *)

EnvNames ==
    { "EMAILJS_SERVICE_ID", "EMAILJS_NOTIFICATION_TEMPLATE_ID",
      "EMAILJS_AUTOREPLY_TEMPLATE_ID", "EMAILJS_PUBLIC_KEY", "EMAILJS_PRIVATE_KEY" }

\* the value a setting has when the deployment defines it
EnvValue(k) ==
    CASE k = "EMAILJS_SERVICE_ID"               -> Str(<<"service_x">>)
      [] k = "EMAILJS_NOTIFICATION_TEMPLATE_ID" -> Str(<<"template_n">>)
      [] k = "EMAILJS_AUTOREPLY_TEMPLATE_ID"    -> Str(<<"template_a">>)
      [] k = "EMAILJS_PUBLIC_KEY"               -> Str(<<"public_k">>)
      [] k = "EMAILJS_PRIVATE_KEY"              -> Str(<<"private_k">>)

\* every combination of present and absent settings
Envs == { [k \in EnvNames |-> IF k \in P THEN EnvValue(k) ELSE Undefined] : P \in SUBSET EnvNames }

FullEnv == [k \in EnvNames |-> EnvValue(k)]

-----------------------------------------------------------------------------
(* Requests *)

Methods == {"OPTIONS", "POST", "GET"}

NameValues    == {Undefined, Str(<<>>), Str(<<" ">>), Str(<<"J", "o">>), Num(7)}
EmailValues   == {Undefined, Str(<<>>), Str(<<" ">>), Str(<<"j", "@", "x">>),
                  Str(<<"j", "@", "x", ".", "c">>)}
SubjectValues == {Undefined, Str(<<>>), Str(<<"S">>)}
MessageValues == {Undefined, Str(<<>>), Str(<<"H", "i">>)}

\* req.body: absent, or a JSON object with any of the four keys
Bodies ==
    {Undefined} \cup
    [t : {"object"}, name : NameValues, email : EmailValues,
     subject : SubjectValues, message : MessageValues]

Requests == [method : Methods, body : Bodies]

\* const { name, email, subject, message } = req.body || {}
Field(body, k) == IF body.t = "object" THEN body[k] ELSE Undefined

-----------------------------------------------------------------------------
(* Responses *)

CorsHeaders ==
    { <<"Access-Control-Allow-Origin", "*">>,
      <<"Access-Control-Allow-Methods", "POST, OPTIONS">>,
      <<"Access-Control-Allow-Headers", "Content-Type">> }

NoBody == [end |-> TRUE]

MethodNotAllowedBody == [error |-> "Method Not Allowed"]
RequiredBody         == [error |-> "Name, email and message are required."]
InvalidEmailBody     == [error |-> "Invalid email address."]
\* (the source has a dash where this text has a hyphen)
MisconfigurationBody == [error |-> "Server misconfiguration - missing environment variables."]
SuccessBody          == [success |-> TRUE]

SendFailedError == "Failed to send email. Please try again."

\* the body of the catch block's response
SendFailedBody(d, errMessage) ==
    IF d = 1
    THEN [error |-> SendFailedError, details |-> errMessage]
    ELSE [error |-> SendFailedError]

-----------------------------------------------------------------------------
(* The email provider, as the handler sees it *)

\* HTTP statuses the provider answers with
ProviderStatuses == {200, 400, 500}

\* response bodies of the provider
ProviderTexts == {"OK", "The template ID not found"}

\* mutation of ResponseOk: only server errors count as failures
ResponseOk_Below500(status) == status < 500

\* response.ok
ResponseOk(status) == status >= 200 /\ status <= 299

NoResponse == [status |-> 0]

\* err.message of the Error that sendEmail throws on a non-success status
ProviderErrorMessage(d, status, text) ==
    IF d = 1
    THEN <<"EmailJS ", status, ": ", text>>
    ELSE <<"EmailJS responded with ", status, ": ", text>>

\* err.message when fetch() or response.text() rejects
TransportErrorMessage == <<"fetch failed">>

\* err.message of the TypeError of name.split on a name that is no string
TypeErrorMessage == <<"name.split is not a function">>

-----------------------------------------------------------------------------
(* Payloads of the two outbound calls *)

NoSubject   == Str(<<"(No subject)">>)
YourMessage == Str(<<"your message">>)

\* name.split(' ')[0]
FirstWord(s) ==
    LET spaces == {k \in 1..Len(s) : s[k] = " "}
        stop == IF spaces = {} THEN Len(s) + 1
                ELSE CHOOSE k \in spaces : \A m \in spaces : k <= m
    IN  SubSeq(s, 1, stop - 1)

\* the second definition interpolates name.split(' ')[0]: a TypeError unless name is a string
HtmlThrows(d, name) == d = 2 /\ name.t # "string"

\* the rendered auto-reply document: its interpolation points
buildAutoReplyHtml(d, name, subject) ==
    IF d = 1
    THEN [name |-> name, displaySubject |-> OrElse(subject, YourMessage)]
    ELSE [name |-> name, displaySubject |-> OrElse(subject, YourMessage),
          firstName |-> Str(FirstWord(name.s))]

NotificationPayload(e, name, email, subject, message) ==
    [ service_id  |-> e["EMAILJS_SERVICE_ID"],
      template_id |-> e["EMAILJS_NOTIFICATION_TEMPLATE_ID"],
      user_id     |-> e["EMAILJS_PUBLIC_KEY"],
      accessToken |-> e["EMAILJS_PRIVATE_KEY"],
      template_params |->
        [ from_name |-> name, from_email |-> email, reply_to |-> email,
          subject |-> OrElse(subject, NoSubject), message |-> message ] ]

AutoReplyPayload(d, e, name, email, subject) ==
    [ service_id  |-> e["EMAILJS_SERVICE_ID"],
      template_id |-> e["EMAILJS_AUTOREPLY_TEMPLATE_ID"],
      user_id     |-> e["EMAILJS_PUBLIC_KEY"],
      accessToken |-> e["EMAILJS_PRIVATE_KEY"],
      template_params |->
        [ from_name |-> name, reply_to |-> email,
          subject |-> OrElse(subject, YourMessage),
          auto_reply_html |-> buildAutoReplyHtml(d, name, subject) ] ]

-----------------------------------------------------------------------------
(* One invocation of the handler *)

Definitions == {1, 2}

NoRequest == [method |-> "none", body |-> Undefined]

\* pc:       "idle", "fetch" (awaiting fetch), "text" (awaiting response.text()), "done"
\* headers:  the headers set on res
\* sent:     the responses sent on res, in order
\* calls:    the payloads of the outbound calls issued, in order
\* replies:  what the provider did with each call, in order
\* response: the Response whose text is awaited
IdleInvocation ==
    [ pc |-> "idle", def |-> 0, req |-> NoRequest, headers |-> {},
      sent |-> <<>>, calls |-> <<>>, replies |-> <<>>, response |-> NoResponse ]

\* res.status(status).json(body) / .end(), and the return
Respond(s, status, body) ==
    [s EXCEPT !.pc = "done", !.sent = Append(@, [status |-> status, body |-> body])]

\* sendEmail(payload) up to its first await: fetch() is called
Issue(s, payload) ==
    [s EXCEPT !.pc = "fetch", !.calls = Append(@, payload), !.response = NoResponse]

\* mutation of SetCorsHeaders: only the origin header is set
SetCorsHeaders_OriginOnly(s) ==
    [s EXCEPT !.headers = @ \cup {<<"Access-Control-Allow-Origin", "*">>}]

\* res.setHeader(...) three times
SetCorsHeaders(s) == [s EXCEPT !.headers = @ \cup CorsHeaders]

\* mutation of RequiredMissing: the message is not looked at
RequiredMissing_NoMessage(name, email, message) == ~Truthy(name) \/ ~Truthy(email)

\* !name || !email || !message
RequiredMissing(name, email, message) ==
    ~Truthy(name) \/ ~Truthy(email) \/ ~Truthy(message)

\* second definition only: !emailRegex.test(email)
InvalidEmail(d, email) == d = 2 /\ ~emailRegexTest(email.s)

\* first definition only: !EMAILJS_SERVICE_ID || !EMAILJS_PUBLIC_KEY || !EMAILJS_PRIVATE_KEY
MissingEnvVars(d, e) ==
    /\ d = 1
    /\ \/ ~Truthy(e["EMAILJS_SERVICE_ID"])
       \/ ~Truthy(e["EMAILJS_PUBLIC_KEY"])
       \/ ~Truthy(e["EMAILJS_PRIVATE_KEY"])

\* mutation of Catch: the error is logged and the handler returns without a response
Catch_LogsOnly(s, errMessage) == [s EXCEPT !.pc = "done"]

\* mutation of Catch: the error is swallowed and success is reported
Catch_Swallow(s, errMessage) == Respond(s, 200, SuccessBody)

\* the catch block
Catch(s, errMessage) == Respond(s, 500, SendFailedBody(s.def, errMessage))

\* mutation of handler: both calls are started without awaiting the first
handler_BothAtOnce(d, req, e) ==
    LET s == SetCorsHeaders([IdleInvocation EXCEPT !.def = d, !.req = req])
        name    == Field(req.body, "name")
        email   == Field(req.body, "email")
        subject == Field(req.body, "subject")
        message == Field(req.body, "message")
        first   == Issue(s, NotificationPayload(e, name, email, subject, message))
    IN  IF req.method = "OPTIONS" THEN Respond(s, 200, NoBody)
        ELSE IF req.method # "POST" THEN Respond(s, 405, MethodNotAllowedBody)
        ELSE IF RequiredMissing(name, email, message) THEN Respond(s, 400, RequiredBody)
        ELSE IF InvalidEmail(d, email) THEN Respond(s, 400, InvalidEmailBody)
        ELSE IF MissingEnvVars(d, e) THEN Respond(s, 500, MisconfigurationBody)
        ELSE IF HtmlThrows(d, name) THEN first
        ELSE Issue(first, AutoReplyPayload(d, e, name, email, subject))

\* the handler from its entry to its first await (or to its return)
handler(d, req, e) ==
    LET s == SetCorsHeaders([IdleInvocation EXCEPT !.def = d, !.req = req])
        name    == Field(req.body, "name")
        email   == Field(req.body, "email")
        subject == Field(req.body, "subject")
        message == Field(req.body, "message")
    IN  IF req.method = "OPTIONS" THEN Respond(s, 200, NoBody)
        ELSE IF req.method # "POST" THEN Respond(s, 405, MethodNotAllowedBody)
        ELSE IF RequiredMissing(name, email, message) THEN Respond(s, 400, RequiredBody)
        ELSE IF InvalidEmail(d, email) THEN Respond(s, 400, InvalidEmailBody)
        ELSE IF MissingEnvVars(d, e) THEN Respond(s, 500, MisconfigurationBody)
        ELSE Issue(s, NotificationPayload(e, name, email, subject, message))

\* the handler after an `await sendEmail(...)` has returned
Resume(s, e) ==
    LET name    == Field(s.req.body, "name")
        email   == Field(s.req.body, "email")
        subject == Field(s.req.body, "subject")
    IN  IF Len(s.calls) = 1
        THEN IF HtmlThrows(s.def, name)
             THEN Catch(s, TypeErrorMessage)
             ELSE Issue(s, AutoReplyPayload(s.def, e, name, email, subject))
        ELSE Respond(s, 200, SuccessBody)

\* the provider's part in the call: appended when fetch settles, completed when text settles
Reply(s, r) == [s EXCEPT !.replies = Append(@, r)]
ReplyText(s, t) == [s EXCEPT !.replies[Len(s.replies)].text = t]

-----------------------------------------------------------------------------
(* Actions of the handler *)

Slots == 1..NumSlots

\* mutation of Invoke: a request equal to one already taken in is answered with
\* success without being sent again
Invoke_Deduplicates(i, reqs) ==
    /\ inv[i].pc = "idle"
    /\ \E d \in Definitions : \E req \in reqs :
          inv' = [inv EXCEPT ![i] =
                    IF \E j \in Slots : inv[j].pc # "idle" /\ inv[j].req = req
                    THEN Respond(SetCorsHeaders([IdleInvocation EXCEPT !.def = d, !.req = req]),
                                 200, SuccessBody)
                    ELSE handler(d, req, env)]
    /\ UNCHANGED <<env, cvars>>

\* a request arrives at slot i and the handler runs to its first await
Invoke(i, reqs) ==
    /\ inv[i].pc = "idle"
    /\ \E d \in Definitions : \E req \in reqs :
          inv' = [inv EXCEPT ![i] = handler(d, req, env)]
    /\ UNCHANGED <<env, cvars>>

\* fetch() rejects: transport failure, sendEmail throws, the catch block answers
FetchRejects(i) ==
    /\ inv[i].pc = "fetch"
    /\ inv' = [inv EXCEPT ![i] =
                 Catch(Reply(inv[i], [fetch |-> "rejected", status |-> 0, text |-> "unread"]),
                       TransportErrorMessage)]
    /\ UNCHANGED <<env, cvars>>

\* fetch() resolves with a Response.  The first sendEmail always awaits
\* response.text(); the second one only when the status is no success.
FetchResponds(i) ==
    /\ inv[i].pc = "fetch"
    /\ \E status \in ProviderStatuses :
          LET s == Reply(inv[i], [fetch |-> "response", status |-> status, text |-> "unread"])
          IN  inv' = [inv EXCEPT ![i] =
                        IF s.def = 2 /\ ResponseOk(status)
                        THEN Resume(s, env)
                        ELSE [s EXCEPT !.pc = "text", !.response = [status |-> status]]]
    /\ UNCHANGED <<env, cvars>>

\* response.text() rejects: the body could not be read
TextRejects(i) ==
    /\ inv[i].pc = "text"
    /\ inv' = [inv EXCEPT ![i] = Catch(ReplyText(inv[i], "rejected"), TransportErrorMessage)]
    /\ UNCHANGED <<env, cvars>>

\* response.text() resolves
TextArrives(i) ==
    /\ inv[i].pc = "text"
    /\ \E text \in ProviderTexts :
          LET s == ReplyText(inv[i], text)
              status == s.response.status
          IN  inv' = [inv EXCEPT ![i] =
                        IF ~ResponseOk(status)
                        THEN Catch(s, ProviderErrorMessage(s.def, status, text))
                        ELSE Resume(s, env)]
    /\ UNCHANGED <<env, cvars>>

\* the handler has returned and its response is out: the slot is free again
Finish(i) ==
    /\ inv[i].pc = "done"
    /\ inv' = [inv EXCEPT ![i] = IdleInvocation]
    /\ UNCHANGED <<env, cvars>>

-----------------------------------------------------------------------------
(* The form clients: src/unnamed/part_000 ("fetch") posts to /api/contact,      *)
(* src/js/contact.js ("emailjs") calls emailjs.send twice itself.               *)

Versions == {"fetch", "emailjs"}

FieldNames == {"name", "email", "subject", "message"}

\* what a visitor may have typed into each input
FieldValues(f) ==
    CASE f = "name"    -> {<<>>, <<" ">>, <<"J">>, <<" ", "J", " ">>}
      [] f = "email"   -> {<<>>, <<"j", "@", "x">>, <<"j", "@", "x", ".", "c">>,
                           <<" ", "j", "@", "x", ".", "c", " ">>}
      [] f = "subject" -> {<<>>, <<"S", " ">>}
      [] f = "message" -> {<<>>, <<" ">>, <<"M">>}

\* contactForm.reset(): the inputs carry no default value
DefaultFields == [f \in FieldNames |-> <<>>]

OriginalLabel == "Send Message"
SendingLabel  == "<i class=\"fas fa-spinner fa-spin\"></i> Sending..."
SentLabel     == "<i class=\"fas fa-check\"></i> Message Sent!"
SentBackground == "linear-gradient(135deg, #27ae60, #2ecc71)"

RequiredToast     == Str(<<"Please fill in all required fields.">>)
InvalidEmailToast == Str(<<"Please enter a valid email address.">>)
SuccessToast      == Str(<<"Message sent! Check your inbox for a confirmation email.">>)
FallbackToast     == Str(<<"Something went wrong. Please try again.">>)
ConnectivityToast == Str(<<"Could not reach the server. Please check your connection.">>)
FailedToast       == Str(<<"Failed to send message. Please try again.">>)

NoToast == [message |-> Undefined, type |-> "none"]

\* showToast(message, type): the toast on the page is replaced by this one
showToast(message, type) == [message |-> message, type |-> type]

\* JSON bodies that /api/contact, or whatever answers in its place, may send
JsonNull == [t |-> "null"]
JsonData ==
    {JsonNull} \cup
    [ t : {"object"},
      success : {Undefined, Bool(TRUE), Bool(FALSE)},
      error : {Undefined, Str(<<>>), Str(<<"Name, email and message are required.">>),
               Str(<<"Failed to send email. Please try again.">>)},
      details : {Undefined, Str(<<"EmailJS 400: The template ID not found">>)} ]

\* fetch('/api/contact', {...})
PostRequest(name, email, subject, message) ==
    [ url |-> "/api/contact", method |-> "POST",
      headers |-> {<<"Content-Type", "application/json">>},
      body |-> [name |-> Str(name), email |-> Str(email),
                subject |-> Str(subject), message |-> Str(message)] ]

\* templateParams of the emailjs client
templateParams(name, email, subject, message) ==
    [ from_name |-> Str(name), from_email |-> Str(email), reply_to |-> Str(email),
      subject |-> OrElse(Str(subject), NoSubject), message |-> Str(message) ]

\* emailjs.send(EMAILJS_SERVICE_ID, template, templateParams)
SendRequest(template, params) ==
    [ service |-> "YOUR_SERVICE_ID", template |-> template, params |-> params ]

\* the first network call of a submission
FirstRequest(v, name, email, subject, message) ==
    IF v = "fetch"
    THEN PostRequest(name, email, subject, message)
    ELSE SendRequest("YOUR_NOTIFICATION_TEMPLATE_ID",
                     templateParams(name, email, subject, message))

\* !name || !email || !message, on the trimmed values
FieldsMissing(name, email, message) == name = <<>> \/ email = <<>> \/ message = <<>>

\* mutation of emailInvalid: only an "@" is asked for
emailInvalid_AtOnly(email) == ~(\E k \in 1..Len(email) : email[k] = "@")

\* !emailRegex.test(email), on the trimmed value
emailInvalid(email) == ~emailRegexTest(email)

\* mutation of validate: the email pattern is checked before the required fields
validate_EmailFirst(name, email, message) ==
    IF emailInvalid(email) THEN InvalidEmailToast
    ELSE IF FieldsMissing(name, email, message) THEN RequiredToast
    ELSE Undefined

\* the toast of the first validation that fails, Undefined when none does
validate(name, email, message) ==
    IF FieldsMissing(name, email, message) THEN RequiredToast
    ELSE IF emailInvalid(email) THEN InvalidEmailToast
    ELSE Undefined

\* what the listener does with the parsed body of a Response
Outcome(ok, data) ==
    IF data = JsonNull THEN "caught"          \* data.success on null: a TypeError
    ELSE IF ok /\ Truthy(data.success) THEN "success"
    ELSE "error"

\* mutation of ErrorToast: the diagnostic field is shown when the body has one
ErrorToast_Details(data) == OrElse(data.details, OrElse(data.error, FallbackToast))

\* data.error || 'Something went wrong. Please try again.'
ErrorToast(data) == OrElse(data.error, FallbackToast)

\* mutation of Sending: the label changes but the control stays enabled
Sending_LabelOnly(btn) == [btn EXCEPT !.innerHTML = SendingLabel]

\* submitBtn.innerHTML = '... Sending...'; submitBtn.disabled = true
Sending(btn) == [btn EXCEPT !.innerHTML = SendingLabel, !.disabled = TRUE]

\* mutation of Restore: the control is enabled and its label left as it is
Restore_EnableOnly(btn, originalHTML) == [btn EXCEPT !.disabled = FALSE]

\* submitBtn.innerHTML = originalHTML; submitBtn.disabled = false
Restore(btn, originalHTML) == [btn EXCEPT !.innerHTML = originalHTML, !.disabled = FALSE]

\* mutation of Sent: the success branch enables the control as well
Sent_Enabled(btn) ==
    [btn EXCEPT !.innerHTML = SentLabel, !.background = SentBackground, !.disabled = FALSE]

\* the success branch: label, background
Sent(btn) == [btn EXCEPT !.innerHTML = SentLabel, !.background = SentBackground]

\* the timeout callback: label, background and disabled are reset
Reset(btn, originalHTML) ==
    [btn EXCEPT !.innerHTML = originalHTML, !.background = "", !.disabled = FALSE]

\* the toast of the catch block
CatchToast(v) == IF v = "fetch" THEN ConnectivityToast ELSE FailedToast

\* res.json(body) on the handler's side read back by response.json(): the
\* handler's body as the data the listener sees
responseJson(body) ==
    [ t |-> "object",
      success |-> IF "success" \in DOMAIN body THEN Bool(body.success) ELSE Undefined,
      error   |-> IF "error" \in DOMAIN body THEN Str(<<body.error>>) ELSE Undefined,
      details |-> IF "details" \in DOMAIN body THEN Str(body.details) ELSE Undefined ]

\* the message of the toast the listener shows for a response of the handler
\* (a response ended without body does not parse: the catch block)
ClientToast(status, body) ==
    LET ok == ResponseOk(status)
    IN  IF body = NoBody THEN CatchToast("fetch")
        ELSE CASE Outcome(ok, responseJson(body)) = "caught"  -> CatchToast("fetch")
               [] Outcome(ok, responseJson(body)) = "success" -> SuccessToast
               [] Outcome(ok, responseJson(body)) = "error"   -> ErrorToast(responseJson(body))

Remove(seq, k) == SubSeq(seq, 1, k - 1) \o SubSeq(seq, k + 1, Len(seq))

\* an event of the page: its kind, the number of network calls it issued, and for
\* the events of a Response its ok flag and the data of its body
EventOf(name, issued, ok, data) ==
    [event |-> name, issued |-> issued, ok |-> ok, data |-> data]

Event(name, issued) == EventOf(name, issued, FALSE, Undefined)

-----------------------------------------------------------------------------
(* Actions of the form client *)

\* the visitor changes the content of an input
Edit ==
    /\ \E f \in FieldNames : \E v \in FieldValues(f) :
          /\ fields[f] # v
          /\ fields' = [fields EXCEPT ![f] = v]
    /\ last' = Event("input", 0)
    /\ UNCHANGED <<ver, submitBtn, toast, listeners, timers, hvars>>

\* The submit event, from the listener's entry to its first await or its return.
\* The browser dispatches it only through the submit control: a disabled control
\* cannot be activated, and a disabled default button blocks implicit submission.
Submit ==
    /\ ~submitBtn.disabled
    /\ Len(listeners) < MaxListeners
    /\ LET name    == trim(fields.name)
           email   == trim(fields.email)
           subject == trim(fields.subject)
           message == trim(fields.message)
       IN  IF validate(name, email, message) # Undefined
           THEN /\ toast' = showToast(validate(name, email, message), "error")
                /\ last' = Event("submit", 0)
                /\ UNCHANGED <<submitBtn, listeners>>
           ELSE /\ submitBtn' = Sending(submitBtn)
                /\ listeners' = Append(listeners,
                      [ pc |-> IF ver = "fetch" THEN "fetch" ELSE "send1",
                        originalHTML |-> submitBtn.innerHTML,
                        request |-> FirstRequest(ver, name, email, subject, message),
                        ok |-> FALSE ])
                /\ last' = Event("submit", 1)
                /\ UNCHANGED toast
    /\ UNCHANGED <<ver, fields, timers, hvars>>

\* mutation of Caught: the catch block also calls contactForm.reset()
Caught_ResetsForm(k, e) ==
    /\ fields' = DefaultFields
    /\ toast' = showToast(CatchToast(ver), "error")
    /\ submitBtn' = Restore(submitBtn, listeners[k].originalHTML)
    /\ listeners' = Remove(listeners, k)
    /\ last' = e
    /\ UNCHANGED <<ver, timers, hvars>>

\* the catch block of run k, entered by event e: toast, label and enabled state
\* restored at once
Caught(k, e) ==
    /\ toast' = showToast(CatchToast(ver), "error")
    /\ submitBtn' = Restore(submitBtn, listeners[k].originalHTML)
    /\ listeners' = Remove(listeners, k)
    /\ last' = e
    /\ UNCHANGED <<ver, fields, timers, hvars>>

\* mutation of Succeeded: the form and the control are reset in the success
\* branch itself, with no timeout
Succeeded_ResetNow(k, e) ==
    /\ fields' = DefaultFields
    /\ submitBtn' = Reset(submitBtn, listeners[k].originalHTML)
    /\ toast' = showToast(SuccessToast, "success")
    /\ listeners' = Remove(listeners, k)
    /\ last' = e
    /\ UNCHANGED <<ver, timers, hvars>>

\* the success branch of run k, entered by event e: indicator, toast, and the
\* 3000 ms timeout is set
Succeeded(k, e) ==
    /\ submitBtn' = Sent(submitBtn)
    /\ toast' = showToast(SuccessToast, "success")
    /\ timers' = Append(timers, [originalHTML |-> listeners[k].originalHTML])
    /\ listeners' = Remove(listeners, k)
    /\ last' = e
    /\ UNCHANGED <<ver, fields, hvars>>

\* the else branch of run k: the error toast, label and enabled state restored at once
Refused(k, e) ==
    /\ toast' = showToast(ErrorToast(e.data), "error")
    /\ submitBtn' = Restore(submitBtn, listeners[k].originalHTML)
    /\ listeners' = Remove(listeners, k)
    /\ last' = e
    /\ UNCHANGED <<ver, fields, timers, hvars>>

\* mutation of RequestFails: the catch block shows its toast and sends the
\* request again
RequestFails_Retries ==
    \E k \in 1..Len(listeners) :
        /\ listeners[k].pc \in {"fetch", "send1", "send2"}
        /\ toast' = showToast(CatchToast(ver), "error")
        /\ last' = Event("rejected", 1)
        /\ UNCHANGED <<ver, fields, submitBtn, listeners, timers, hvars>>

\* the awaited call rejects: fetch() never completed, or emailjs.send failed
RequestFails ==
    \E k \in 1..Len(listeners) :
        /\ listeners[k].pc \in {"fetch", "send1", "send2"}
        /\ Caught(k, Event("rejected", 0))

\* fetch() resolves with a Response of either kind of status; response.json() is awaited
FetchResolves ==
    \E k \in 1..Len(listeners) : \E ok \in BOOLEAN :
        /\ listeners[k].pc = "fetch"
        /\ listeners' = [listeners EXCEPT ![k].pc = "json", ![k].ok = ok]
        /\ last' = EventOf("response", 0, ok, Undefined)
        /\ UNCHANGED <<ver, fields, submitBtn, toast, timers, hvars>>

\* mutation of JsonRejects: a body that does not parse is treated as an error
\* Response with no message of its own
JsonRejects_Fallback ==
    \E k \in 1..Len(listeners) :
        /\ listeners[k].pc = "json"
        /\ toast' = showToast(FallbackToast, "error")
        /\ submitBtn' = Restore(submitBtn, listeners[k].originalHTML)
        /\ last' = EventOf("json-rejected", 0, listeners[k].ok, Undefined)
        /\ listeners' = Remove(listeners, k)
        /\ UNCHANGED <<ver, fields, timers, hvars>>

\* response.json() rejects: the body is no JSON, or could not be read
JsonRejects ==
    \E k \in 1..Len(listeners) :
        /\ listeners[k].pc = "json"
        /\ Caught(k, EventOf("json-rejected", 0, listeners[k].ok, Undefined))

\* response.json() resolves with data
JsonResolves ==
    \E k \in 1..Len(listeners) : \E data \in JsonData :
        /\ listeners[k].pc = "json"
        /\ LET e == EventOf("json", 0, listeners[k].ok, data)
               o == Outcome(listeners[k].ok, data)
           IN  CASE o = "caught"  -> Caught(k, e)
                 [] o = "success" -> Succeeded(k, e)
                 [] o = "error"   -> Refused(k, e)

\* emailjs.send resolves: the notification is followed by the auto-reply call,
\* the auto-reply by the success branch
SendResolves ==
    \E k \in 1..Len(listeners) :
        \/ /\ listeners[k].pc = "send1"
           /\ listeners' = [listeners EXCEPT
                 ![k].pc = "send2",
                 ![k].request = SendRequest("YOUR_AUTOREPLY_TEMPLATE_ID", @.params)]
           /\ last' = Event("sent", 1)
           /\ UNCHANGED <<ver, fields, submitBtn, toast, timers, hvars>>
        \/ /\ listeners[k].pc = "send2"
           /\ Succeeded(k, Event("sent", 0))

\* the 3000 ms timeout of a successful submission fires
TimerFires ==
    \E k \in 1..Len(timers) :
        /\ fields' = DefaultFields
        /\ submitBtn' = Reset(submitBtn, timers[k].originalHTML)
        /\ timers' = Remove(timers, k)
        /\ last' = Event("timer", 0)
        /\ UNCHANGED <<ver, toast, listeners, hvars>>

\* the 5000 ms timeout of the toast on the page fires: toast.remove()
ToastExpires ==
    /\ toast # NoToast
    /\ toast' = NoToast
    /\ last' = Event("toast", 0)
    /\ UNCHANGED <<ver, fields, submitBtn, listeners, timers, hvars>>

-----------------------------------------------------------------------------
(* Specifications *)

\* the page as DOMContentLoaded leaves it
PageLoaded ==
    /\ fields = DefaultFields
    /\ submitBtn = [innerHTML |-> OriginalLabel, disabled |-> FALSE, background |-> ""]
    /\ toast = NoToast
    /\ listeners = <<>>
    /\ timers = <<>>
    /\ last = Event("load", 0)

HInit ==
    /\ env \in Envs
    /\ inv = [i \in Slots |-> IdleInvocation]
    /\ ver = "fetch"
    /\ PageLoaded

\* requests are served one after the other
HNext ==
    \/ Invoke(1, Requests)
    \/ FetchRejects(1)
    \/ FetchResponds(1)
    \/ TextRejects(1)
    \/ TextArrives(1)
    \/ Finish(1)

\* the handler, under every configuration and every request
Spec == HInit /\ [][HNext]_vars

CInit ==
    /\ env = FullEnv
    /\ inv = [i \in Slots |-> IdleInvocation]
    /\ ver \in Versions
    /\ PageLoaded

CNext ==
    \/ Edit
    \/ Submit
    \/ RequestFails
    \/ FetchResolves
    \/ JsonRejects
    \/ JsonResolves
    \/ SendResolves
    \/ TimerFires
    \/ ToastExpires

\* the handler with a provider whose calls end: every fetch() settles, and so does
\* every response.text()
FairSpec ==
    /\ Spec
    /\ WF_vars(FetchRejects(1) \/ FetchResponds(1))
    /\ WF_vars(TextRejects(1) \/ TextArrives(1))

\* valid submissions that arrive more than once
RepeatedRequests ==
    { [method |-> "POST",
       body |-> [t |-> "object", name |-> Str(<<"J", "o">>),
                 email |-> Str(<<"j", "@", "x", ".", "c">>),
                 subject |-> sub, message |-> Str(<<"H", "i">>)]] :
      sub \in {Undefined, Str(<<"S">>)} }

KInit ==
    /\ env = FullEnv
    /\ inv = [i \in Slots |-> IdleInvocation]
    /\ ver = "fetch"
    /\ PageLoaded

KNext ==
    \/ \E i \in Slots : Invoke(i, RepeatedRequests)
    \/ \E i \in Slots : FetchRejects(i)
    \/ \E i \in Slots : FetchResponds(i)
    \/ \E i \in Slots : TextRejects(i)
    \/ \E i \in Slots : TextArrives(i)

\* invocations of the handler running side by side, their awaits interleaved in
\* any order; every invocation stays in its slot, so that its calls can be counted
ConcurrentSpec == KInit /\ [][KNext]_vars

\* the form client of either version, with a server that may answer anything
ClientSpec == CInit /\ [][CNext]_vars

\* the form client with a network whose requests end and a clock that runs:
\* every awaited call settles, every body is parsed or fails to parse, and every
\* timeout set fires
ClientFairSpec ==
    /\ ClientSpec
    /\ WF_vars(RequestFails \/ FetchResolves \/ SendResolves)
    /\ WF_vars(JsonRejects \/ JsonResolves)
    /\ WF_vars(TimerFires)

-----------------------------------------------------------------------------
(* Vocabulary of the claims about the handler *)

\* a 2xx status, as the provider means it
Accepted(status) == status \in 200..299

\* the provider's part in a call went wrong: no response, a non-success status,
\* or a body that could not be read
NonSuccess(r) == r.fetch = "rejected" \/ r.text = "rejected" \/ ~Accepted(r.status)

\* the call has resolved for the handler: sendEmail of definition d has returned
Resolved(d, r) ==
    /\ r.fetch = "response"
    /\ Accepted(r.status)
    /\ IF d = 1 THEN r.text \in ProviderTexts ELSE r.text = "unread"

\* the invocation has sent exactly this response
Answered(s, status, body) == s.sent = <<[status |-> status, body |-> body]>>

\* the invocation has sent exactly one response, with this status
AnsweredStatus(s, status) == Len(s.sent) = 1 /\ s.sent[1].status = status

IsText(v) == v.t = "string"

\* a Submission as the data model has it: name, email and message are text that is
\* non-empty after trimming, and email has the shape local@domain.tld
ValidSubmission(body) ==
    /\ body.t = "object"
    /\ \A k \in {"name", "email", "message"} : IsText(body[k]) /\ trim(body[k].s) # <<>>
    /\ emailRegexTest(body.email.s)

\* name, email or message is missing or empty
MissingOrEmpty(body) ==
    \E k \in {"name", "email", "message"} : Field(body, k) \in {Undefined, Str(<<>>)}

IsNotification(p) == "from_email" \in DOMAIN p.template_params
IsAutoReply(p) == "auto_reply_html" \in DOMAIN p.template_params

-----------------------------------------------------------------------------
\* C1: a POST with valid name, email and message under a configuration in which
\* any of the five settings is absent is answered 500 and issues no outbound call.
C1_AbsentCredentialRefused ==
    \A i \in Slots :
        LET s == inv[i]
        IN  (s.pc # "idle" /\ s.req.method = "POST" /\ ValidSubmission(s.req.body)
                /\ env # FullEnv)
            => (s.calls = <<>> /\ s.pc = "done" /\ AnsweredStatus(s, 500))

\* C2: an outbound call is issued only for a submission whose name, email and
\* message are non-empty after trimming and whose email matches the pattern.
C2_OnlyValidSubmissionsReachProvider ==
    \A i \in Slots : inv[i].calls # <<>> => ValidSubmission(inv[i].req.body)

\* C3: a POST in which name, email or message is missing or empty is answered
\* 400 {error: "Name, email and message are required."} with no outbound call,
\* under every configuration.
C3_MissingFieldIs400 ==
    \A i \in Slots :
        LET s == inv[i]
        IN  (s.pc # "idle" /\ s.req.method = "POST" /\ MissingOrEmpty(s.req.body))
            => (s.pc = "done" /\ Answered(s, 400, RequiredBody) /\ s.calls = <<>>)

\* the example of the specification: {name: "", email: "j@x.c", message: "Hi"},
\* answered 400, here under a configuration with no setting at all
C3_Witness ==
    \E i \in Slots :
        /\ inv[i].req.method = "POST"
        /\ inv[i].req.body.t = "object"
        /\ inv[i].req.body.name = Str(<<>>)
        /\ inv[i].req.body.email = Str(<<"j", "@", "x", ".", "c">>)
        /\ inv[i].req.body.message = Str(<<"H", "i">>)
        /\ env = [k \in EnvNames |-> Undefined]
        /\ Answered(inv[i], 400, RequiredBody)

\* C4: when the notification call fails (no response, unreadable response or
\* non-success status) the auto-reply call is never issued, and the handler,
\* once it has the failure in hand, answers 500.
C4_FirstFailureStopsSecondCall ==
    \A i \in Slots :
        LET s == inv[i]
        IN  (Len(s.replies) >= 1 /\ NonSuccess(s.replies[1]))
            => /\ Len(s.calls) = 1
               /\ \/ s.pc = "text" /\ s.sent = <<>>
                  \/ s.pc = "done" /\ AnsweredStatus(s, 500)

\* the notification call got a non-success status with a readable body, and the
\* handler has answered 500 after one call
C4_Witness ==
    \E i \in Slots :
        /\ inv[i].pc = "done"
        /\ Len(inv[i].replies) = 1
        /\ inv[i].replies[1].fetch = "response"
        /\ inv[i].replies[1].status = 400
        /\ inv[i].replies[1].text \in ProviderTexts
        /\ Len(inv[i].calls) = 1
        /\ AnsweredStatus(inv[i], 500)

\* C5: the notification call is the first call issued; the auto-reply call is
\* issued only once the notification call has resolved, so at most one call is
\* outstanding; a valid submission under a full configuration whose two calls
\* both succeed is answered 200 {success: true}.
C5_SequentialCallsThen200 ==
    \A i \in Slots :
        LET s == inv[i]
        IN  /\ Len(s.calls) <= 2
            /\ Len(s.calls) <= Len(s.replies) + 1
            /\ Len(s.calls) >= 1 => IsNotification(s.calls[1])
            /\ Len(s.calls) = 2 =>
                  /\ IsAutoReply(s.calls[2])
                  /\ Len(s.replies) >= 1
                  /\ Resolved(s.def, s.replies[1])
            /\ (/\ s.req.method = "POST" /\ ValidSubmission(s.req.body) /\ env = FullEnv
                /\ Len(s.replies) = 2
                /\ \A k \in 1..2 : Resolved(s.def, s.replies[k]))
               => (s.pc = "done" /\ Answered(s, 200, SuccessBody))

C5_Witness ==
    \E i \in Slots :
        /\ ValidSubmission(inv[i].req.body)
        /\ env = FullEnv
        /\ Len(inv[i].calls) = 2
        /\ \A k \in 1..Len(inv[i].replies) : Resolved(inv[i].def, inv[i].replies[k])
        /\ Answered(inv[i], 200, SuccessBody)

\* C6: {success: true} with status 200 is sent exactly when both calls were
\* issued and both succeeded; an invocation in which a call failed sends no
\* success response, and ends with 500.
C6_SuccessIffBothCallsSucceeded ==
    \A i \in Slots :
        LET s == inv[i]
            successSent == \E k \in 1..Len(s.sent) : s.sent[k].body = SuccessBody
        IN  /\ successSent <=>
                  /\ s.pc = "done"
                  /\ Answered(s, 200, SuccessBody)
                  /\ Len(s.calls) = 2
                  /\ Len(s.replies) = 2
                  /\ \A k \in 1..2 : Resolved(s.def, s.replies[k])
            /\ (\E k \in 1..Len(s.replies) : NonSuccess(s.replies[k]))
                  => (~successSent /\ (s.pc = "done" => AnsweredStatus(s, 500)))

\* the auto-reply call failed after a successful notification call: 500
C6_Witness ==
    \E i \in Slots :
        /\ inv[i].pc = "done"
        /\ Len(inv[i].replies) = 2
        /\ Resolved(inv[i].def, inv[i].replies[1])
        /\ NonSuccess(inv[i].replies[2])
        /\ AnsweredStatus(inv[i], 500)

\* C7: OPTIONS is answered 200 and any method other than POST and OPTIONS 405,
\* both with no outbound call and whatever the body and the configuration are;
\* every response goes out with the three cross-origin headers.
C7_MethodGateAndCorsHeaders ==
    \A i \in Slots :
        LET s == inv[i]
        IN  /\ s.sent # <<>> => s.headers = CorsHeaders
            /\ (s.pc # "idle" /\ s.req.method = "OPTIONS")
                  => (s.pc = "done" /\ Answered(s, 200, NoBody) /\ s.calls = <<>>)
            /\ (s.pc # "idle" /\ s.req.method \notin {"POST", "OPTIONS"})
                  => (s.pc = "done" /\ Answered(s, 405, MethodNotAllowedBody)
                        /\ s.calls = <<>>)

\* a GET with a body that lacks the required fields, under an empty configuration
C7_Witness ==
    \E i \in Slots :
        /\ inv[i].req.method = "GET"
        /\ MissingOrEmpty(inv[i].req.body)
        /\ env = [k \in EnvNames |-> Undefined]
        /\ Answered(inv[i], 405, MethodNotAllowedBody)
        /\ inv[i].headers = CorsHeaders

-----------------------------------------------------------------------------
(* Vocabulary of the claims about the form client *)

\* empty or white space only
Blank(s) == \A k \in 1..Len(s) : s[k] \in WhiteSpace

\* name, email or message is empty or white space only
RequiredBlank == Blank(fields.name) \/ Blank(fields.email) \/ Blank(fields.message)

\* the last event was a submit event; the inputs still hold what it read
Submitted == last.event = "submit"

\* C8: at most one request of the form client is outstanding at any time, and
\* while one is outstanding the submit control is disabled (submit events come
\* through the submit control only, so none is dispatched meanwhile).
C8_OneSubmissionInFlight ==
    /\ Len(listeners) <= 1
    /\ last.issued <= 1
    /\ listeners # <<>> => submitBtn.disabled

\* a request is outstanding while the visitor edits the form
C8_Witness ==
    /\ Len(listeners) = 1
    /\ listeners[1].pc \in {"json", "send2"}
    /\ last.event = "input"
    /\ submitBtn.disabled

\* C9: a submit with name, email or message empty or white space only issues
\* no network call, shows "Please fill in all required fields.", and leaves the
\* submit control enabled with its original label.
C9_RequiredFieldsRejected ==
    (Submitted /\ RequiredBlank)
    => /\ last.issued = 0
       /\ listeners = <<>>
       /\ toast = showToast(RequiredToast, "error")
       /\ ~submitBtn.disabled
       /\ submitBtn.innerHTML = OriginalLabel

\* a white-space-only name with a valid email and a message
C9_Witness ==
    /\ Submitted
    /\ fields.name = <<" ">>
    /\ fields.email = <<"j", "@", "x", ".", "c">>
    /\ fields.message = <<"M">>
    /\ toast = showToast(RequiredToast, "error")

\* C10, as stated: a submit with an email that does not match local@domain.tld
\* issues no network call and shows "Please enter a valid email address."
C10_InvalidEmailToast ==
    (Submitted /\ ~emailRegexTest(trim(fields.email)))
    => (last.issued = 0 /\ toast = showToast(InvalidEmailToast, "error"))

\* C10, amended: a submit with an email that, trimmed, does not match
\* local@domain.tld issues no network call; it shows "Please enter a valid email
\* address." when name, email and message are all non-blank, and "Please fill in
\* all required fields." otherwise.
C10_InvalidEmailRejected ==
    (Submitted /\ ~emailRegexTest(trim(fields.email)))
    => /\ last.issued = 0
       /\ listeners = <<>>
       /\ toast = showToast(IF RequiredBlank THEN RequiredToast ELSE InvalidEmailToast,
                            "error")

\* "j@x" with a name and a message: the invalid-email toast
C10_Witness ==
    /\ Submitted
    /\ ~Blank(fields.name)
    /\ ~Blank(fields.message)
    /\ fields.email = <<"j", "@", "x">>
    /\ last.issued = 0
    /\ toast = showToast(InvalidEmailToast, "error")

\* the form holds a submission that passes the client's validation
ValidForm == ~RequiredBlank /\ emailRegexTest(trim(fields.email))

\* the JSON body of the submission the form holds: the trimmed field contents
TrimmedBody ==
    [ name |-> Str(trim(fields.name)), email |-> Str(trim(fields.email)),
      subject |-> Str(trim(fields.subject)), message |-> Str(trim(fields.message)) ]

\* request r is a POST to the submission endpoint carrying TrimmedBody
IsPostOfForm(r) ==
    /\ "url" \in DOMAIN r
    /\ r.url = "/api/contact"
    /\ r.method = "POST"
    /\ DOMAIN r.body = {"name", "email", "subject", "message"}
    /\ r.body = TrimmedBody

\* C11: a submit event on a valid form sends exactly one request, a POST to the
\* submission endpoint whose JSON body has exactly the keys name, email, subject
\* and message, with the trimmed field contents as values. Violated by the client
\* of src/js/contact.js, which calls emailjs.send and never the endpoint.
C11_OnePostPerSubmit ==
    (Submitted /\ ValidForm) =>
        /\ last.issued = 1
        /\ Len(listeners) = 1
        /\ IsPostOfForm(listeners[1].request)

\* C11, for the client of src/unnamed/part_000 alone: there the statement holds.
C11_FetchClientPostsOnce == ver = "fetch" => C11_OnePostPerSubmit

C11_FetchClientWitness ==
    /\ ver = "fetch" /\ Submitted /\ ValidForm
    /\ fields.name # trim(fields.name)
    /\ fields.subject # <<>>

\* the submit control as the page loaded it: enabled, with its original label
ControlRestored == ~submitBtn.disabled /\ submitBtn.innerHTML = OriginalLabel

\* the parsed body says the submission succeeded
IndicatesSuccess(data) == data.t = "object" /\ data.success = Bool(TRUE)

\* the last event completed a Response that is not a success: a non-success
\* status, or a body that does not indicate success (parsed or not)
ErrorResponse ==
    /\ ver = "fetch"
    /\ last.event \in {"json", "json-rejected"}
    /\ ~last.ok \/ ~IndicatesSuccess(last.data)

\* the error message the server provided, else the generic fallback
ServerMessageOrFallback(data) ==
    IF data.t = "object" /\ data.error.t = "string" /\ data.error.s # <<>>
    THEN data.error
    ELSE FallbackToast

\* C12: when the Response has a non-success status, or a success status and a
\* body not indicating success, the control is at once enabled with its original
\* label, no timer is set, and the error toast shows the server's error message
\* if there is one, else "Something went wrong. Please try again.". Violated
\* when the body is not a JSON object (null, or not JSON at all): the catch
\* block shows the connectivity toast.
C12_ErrorResponseToast ==
    ErrorResponse =>
        /\ ControlRestored
        /\ timers = <<>>
        /\ toast = showToast(ServerMessageOrFallback(last.data), "error")

\* C12, for bodies that parse to a JSON object: there the statement holds.
C12_ObjectBodyErrorToast ==
    (ErrorResponse /\ last.data.t = "object") => C12_ErrorResponseToast

C12_ObjectBodyWitness ==
    /\ ErrorResponse /\ last.data.t = "object"
    /\ last.ok /\ last.data.error = Undefined

\* the last event completed a successful submission
SuccessEvent ==
    \/ ver = "fetch" /\ last.event = "json" /\ last.ok /\ IndicatesSuccess(last.data)
    \/ ver = "emailjs" /\ last.event = "sent" /\ last.issued = 0

\* the 3-second timer of a successful submission is pending
TimerPending == timers # <<>>

\* C13: a success shows the success indicator and the success toast and sets one
\* timer; while that timer is pending the control stays disabled under the
\* success label; when the timer fires the fields are reset and the control is
\* enabled with its original label; and nothing but the visitor's own input or
\* the firing of the timer changes a field or ends the control's success state.
C13_ResetOnlyWhenTimerFires ==
    /\ [](SuccessEvent =>
            /\ submitBtn = [innerHTML |-> SentLabel, disabled |-> TRUE,
                            background |-> SentBackground]
            /\ toast = showToast(SuccessToast, "success")
            /\ Len(timers) = 1)
    /\ [](TimerPending => submitBtn.disabled /\ submitBtn.innerHTML = SentLabel)
    /\ [](last.event = "timer" =>
            /\ fields = DefaultFields
            /\ ControlRestored /\ submitBtn.background = ""
            /\ ~TimerPending)
    /\ [][ /\ fields' # fields =>
                \/ last'.event = "input"
                \/ last'.event = "timer" /\ TimerPending
           /\ (SuccessEvent' /\ ~SuccessEvent) => fields' = fields
           /\ (TimerPending /\ ~submitBtn'.disabled) => last'.event = "timer" ]_vars

\* the timer of a successful submission has fired
C13_Witness ==
    /\ last.event = "timer"
    /\ fields = DefaultFields
    /\ ControlRestored

\* the last event ended a submission in failure: the validation rejected it, the
\* request never completed, or its Response was not a success
FailureEvent ==
    \/ last.event = "submit" /\ last.issued = 0
    \/ last.event \in {"rejected", "json-rejected"}
    \/ last.event = "json" /\ ~(last.ok /\ IndicatesSuccess(last.data))

\* C14: every failure outcome leaves the control enabled with its original label
\* and no reset scheduled, and the step that produces it changes none of the
\* four fields.
C14_FailureLeavesFormUntouched ==
    /\ [](FailureEvent => ControlRestored /\ ~TimerPending)
    /\ [][FailureEvent' => fields' = fields]_vars

\* a request failed on a form that holds text
C14_Witness ==
    /\ last.event \in {"rejected", "json-rejected", "json"}
    /\ FailureEvent
    /\ fields.name # <<>> /\ fields.message # <<>>

\* the last event was the rejection of the awaited network call
NetworkFailure == last.event = "rejected"

\* C15: when the request never completed, the control is at once enabled with
\* its original label, no timer is set, the request is not sent again, and the
\* error toast is the one of the catch block: the connectivity message in the
\* client that posts to the endpoint (the client of src/js/contact.js has one
\* catch message for every failure).
C15_NetworkFailureRestores ==
    NetworkFailure =>
        /\ ControlRestored
        /\ ~TimerPending
        /\ listeners = <<>> /\ last.issued = 0
        /\ toast.type = "error"
        /\ ver = "fetch" => toast.message = ConnectivityToast
        /\ ver = "emailjs" => toast.message = FailedToast

C15_Witness ==
    /\ NetworkFailure /\ ver = "fetch"
    /\ toast = showToast(ConnectivityToast, "error")
    /\ fields.message # <<>>

\* invocation s has answered 200 with the success body
Successful(s) == s.pc = "done" /\ s.sent = <<[status |-> 200, body |-> SuccessBody]>>

\* the notification / auto-reply pair of invocation s's own request
OwnPair(s) ==
    LET b == s.req.body
    IN  << NotificationPayload(env, b.name, b.email, b.subject, b.message),
           AutoReplyPayload(s.def, env, b.name, b.email, b.subject) >>

RECURSIVE CallsUpTo(_)
\* the number of outbound calls issued by the invocations in slots 1..n
CallsUpTo(n) == IF n = 0 THEN 0 ELSE Len(inv[n].calls) + CallsUpTo(n - 1)

\* C16: the handler keeps nothing between invocations. Every successful
\* invocation has issued exactly the pair of calls of its own request, however
\* the invocations interleave and even when their requests are identical; when
\* the n invocations taken in so far have all succeeded, exactly 2n calls have
\* been issued; and two invocations of the same definition with the same request
\* and the same provider replies are in the same state, whatever ran before.
C16_StatelessPairPerInvocation ==
    /\ \A i \in Slots : Successful(inv[i]) => inv[i].calls = OwnPair(inv[i])
    /\ (\A i \in Slots : inv[i].pc = "idle" \/ Successful(inv[i])) =>
          CallsUpTo(NumSlots) = 2 * Cardinality({i \in Slots : Successful(inv[i])})
    /\ \A i, j \in Slots :
          (/\ inv[i].def = inv[j].def
           /\ inv[i].req = inv[j].req
           /\ inv[i].replies = inv[j].replies) => inv[i] = inv[j]

\* two identical requests have both succeeded: four calls are out
C16_Witness ==
    \E i, j \in Slots :
        /\ i # j
        /\ Successful(inv[i]) /\ Successful(inv[j])
        /\ inv[i].req = inv[j].req
        /\ Len(inv[i].calls) + Len(inv[j].calls) = 4

\* the subject of the request is absent or empty
NoSubjectGiven(body) == Field(body, "subject") \in {Undefined, Str(<<>>)}

\* C17: every call an invocation issues carries the sender's email as reply_to;
\* the notification carries the request's subject, or "(No subject)" when that
\* is absent or empty, and the auto-reply the request's subject, or "your
\* message"; a successful invocation has issued the notification and then the
\* auto-reply; and a 400 is due to a missing required field or a malformed
\* email, never to the subject.
C17_ReplyToAndSubjectDefaults ==
    \A i \in Slots :
        LET s == inv[i]
            b == s.req.body
        IN  s.pc # "idle" =>
              /\ \A k \in 1..Len(s.calls) :
                    LET p == s.calls[k].template_params
                    IN  /\ p.reply_to = Field(b, "email")
                        /\ IsNotification(s.calls[k]) =>
                              p.subject = IF NoSubjectGiven(b) THEN NoSubject
                                          ELSE Field(b, "subject")
                        /\ IsAutoReply(s.calls[k]) =>
                              p.subject = IF NoSubjectGiven(b) THEN YourMessage
                                          ELSE Field(b, "subject")
              /\ Successful(s) =>
                    /\ Len(s.calls) = 2
                    /\ IsNotification(s.calls[1]) /\ IsAutoReply(s.calls[2])
              /\ AnsweredStatus(s, 400) =>
                    \/ MissingOrEmpty(b)
                    \/ s.def = 2 /\ ~emailRegexTest(Field(b, "email").s)

\* a submission without subject was accepted and both calls carry their defaults
C17_Witness ==
    \E i \in Slots :
        /\ Successful(inv[i])
        /\ NoSubjectGiven(inv[i].req.body)
        /\ inv[i].calls[1].template_params.subject = NoSubject
        /\ inv[i].calls[2].template_params.subject = YourMessage
        /\ inv[i].calls[2].template_params.reply_to = inv[i].req.body.email

\* the messages a response of the handler may carry as its error
GenericErrors ==
    { "Method Not Allowed", "Name, email and message are required.",
      "Invalid email address.",
      "Server misconfiguration - missing environment variables.",
      "Failed to send email. Please try again." }

\* the messages the client may show
GenericToasts ==
    {Str(<<e>>) : e \in GenericErrors} \cup
    { Str(<<"Message sent! Check your inbox for a confirmation email.">>),
      Str(<<"Something went wrong. Please try again.">>),
      Str(<<"Could not reach the server. Please check your connection.">>) }

\* a response body with its diagnostic field taken away
WithoutDetails(body) == [f \in DOMAIN body \ {"details"} |-> body[f]]

\* C18: the error field of every response of the handler is one of a fixed set
\* of generic messages, and after a failed call it is the same message whatever
\* the provider replied; apart from success and error a body has at most the
\* details field; and the toast the client shows for the response is a generic
\* message that is the same with and without details.
C18_ProviderTextStaysInDetails ==
    \A i \in Slots : \A k \in 1..Len(inv[i].sent) :
        LET r == inv[i].sent[k]
        IN  /\ DOMAIN r.body \subseteq {"success", "error", "details", "end"}
            /\ "error" \in DOMAIN r.body => r.body.error \in GenericErrors
            /\ (inv[i].replies # <<>> /\ r.status # 200) =>
                  r.body.error = "Failed to send email. Please try again."
            /\ ClientToast(r.status, r.body) \in GenericToasts
            /\ ClientToast(r.status, r.body) = ClientToast(r.status, WithoutDetails(r.body))

\* a response carries the provider's text in details, and the client shows the
\* generic message
C18_Witness ==
    \E i \in Slots :
        /\ Len(inv[i].sent) = 1
        /\ "details" \in DOMAIN inv[i].sent[1].body
        /\ inv[i].sent[1].body.details[Len(inv[i].sent[1].body.details)] \in ProviderTexts
        /\ ClientToast(inv[i].sent[1].status, inv[i].sent[1].body)
             = Str(<<"Failed to send email. Please try again.">>)

\* the email field, trimmed, does not have the shape local@domain.tld
EmailMalformed == ~emailRegexTest(trim(fields.email))

\* C19: a submit is rejected exactly when a validation fails; a rejected submit
\* issues no network call, leaves the control as it was and shows one error
\* toast, that of the first check that fails: with a blank required field and a
\* malformed email it is the required-fields toast alone.
C19_FirstFailureOnly ==
    Submitted =>
        /\ last.issued = 0 <=> (RequiredBlank \/ EmailMalformed)
        /\ last.issued = 0 =>
              /\ listeners = <<>>
              /\ ControlRestored
              /\ toast.type = "error"
              /\ toast.message \in {RequiredToast, InvalidEmailToast}
        /\ (RequiredBlank /\ EmailMalformed) => toast.message = RequiredToast

\* a blank name next to a non-empty malformed email: the required-fields toast
C19_Witness ==
    /\ Submitted
    /\ Blank(fields.name)
    /\ ~Blank(fields.email) /\ EmailMalformed
    /\ ~Blank(fields.message)
    /\ toast = showToast(RequiredToast, "error")
    /\ listeners = <<>>

\* the last event was a Response whose body could not be parsed as JSON
UnparseableBody == last.event = "json-rejected"

\* C20: a Response whose body does not parse as JSON, whatever its status, ends
\* as a network-level failure does: the control is at once enabled with its
\* original label, no timer is set, nothing is sent again, the toast is the
\* connectivity message and not the generic fallback, and the fields keep their
\* contents.
C20_UnparseableBodyAsNetworkFailure ==
    /\ [](UnparseableBody =>
            /\ ControlRestored
            /\ ~TimerPending
            /\ listeners = <<>> /\ last.issued = 0
            /\ toast = showToast(ConnectivityToast, "error"))
    /\ [][UnparseableBody' => fields' = fields]_vars

\* a 2xx Response with an unparseable body, on a form that holds text
C20_Witness ==
    /\ UnparseableBody /\ last.ok
    /\ toast.message = ConnectivityToast
    /\ fields.name # <<>> /\ fields.message # <<>>

\* one of the credentials the configuration check looks at is absent
CredentialsAbsent ==
    \E n \in {"EMAILJS_SERVICE_ID", "EMAILJS_PUBLIC_KEY", "EMAILJS_PRIVATE_KEY"} :
        env[n] = Undefined

\* the email of the request does not have the shape local@domain.tld
MalformedEmail(body) == ~emailRegexTest(Field(body, "email").s)

\* invocation s was decided by the first check that fails, the configuration
\* check being one of the checks when hasConfigCheck holds
DecidedInOrder(s, hasConfigCheck) ==
    LET b == s.req.body
        refused(status) == AnsweredStatus(s, status) /\ s.calls = <<>>
    IN  IF s.req.method = "OPTIONS" THEN Answered(s, 200, NoBody) /\ s.calls = <<>>
        ELSE IF s.req.method # "POST" THEN refused(405)
        ELSE IF MissingOrEmpty(b) THEN refused(400)
        ELSE IF s.def = 2 /\ MalformedEmail(b) THEN refused(400)
        ELSE IF hasConfigCheck /\ CredentialsAbsent THEN refused(500)
        ELSE Len(s.calls) >= 1

\* C21: the handler checks the method, then the required fields (and the email
\* format where the definition has that check), then the configuration, and
\* only then issues calls; the first check that fails decides the response and
\* no call is issued. Violated by the second definition, which has no
\* configuration check: with a credential absent it issues the calls.
C21_FirstFailingCheckDecides ==
    \A i \in Slots : inv[i].pc # "idle" => DecidedInOrder(inv[i], TRUE)

\* C21, with the configuration check counted only where the definition has it
\* (the first one): there the order holds, and a POST that lacks a required
\* field under absent credentials is answered 400, a non-POST 405.
C21_PresentChecksInOrder ==
    \A i \in Slots : inv[i].pc # "idle" => DecidedInOrder(inv[i], inv[i].def = 1)

C21_PresentChecksWitness ==
    \E i \in Slots :
        /\ inv[i].req.method = "POST"
        /\ MissingOrEmpty(inv[i].req.body)
        /\ CredentialsAbsent
        /\ AnsweredStatus(inv[i], 400)

\* invocation s is running: it has been entered and has not returned
Running(s) == s.pc \notin {"idle", "done"}

\* invocation s has returned
Returned(s) == s.pc = "done"

\* C22: an invocation has sent no response while it runs and exactly one when
\* it has returned; once it has returned it issues no further call and sends
\* nothing more; and, every outbound call settling, a running invocation
\* returns.
C22_OneResponseThenEnd ==
    /\ [](\A i \in Slots :
            /\ Running(inv[i]) => inv[i].sent = <<>>
            /\ Returned(inv[i]) => Len(inv[i].sent) = 1)
    /\ [][\A i \in Slots :
            Returned(inv[i]) =>
                \/ inv'[i] = inv[i]
                \/ inv'[i] = IdleInvocation]_vars
    /\ \A i \in Slots : Running(inv[i]) ~> Returned(inv[i])

\* the invocation returned from its catch block after one call: one response
C22_Witness ==
    \E i \in Slots :
        /\ Returned(inv[i])
        /\ Len(inv[i].calls) = 1
        /\ Len(inv[i].sent) = 1 /\ inv[i].sent[1].status = 500

\* the last event was a submit that passed validation and sent its request
SubmissionSent == Submitted /\ last.issued = 1

\* C23: whenever the submit control is enabled its label is the original one;
\* and, every request settling and every timer firing, each submission that
\* passed validation is followed by a state in which the control is enabled.
C23_EnabledWithOriginalLabel ==
    /\ [](~submitBtn.disabled => submitBtn.innerHTML = OriginalLabel)
    /\ SubmissionSent ~> ~submitBtn.disabled

\* the control is enabled again, with its original label, after a request that
\* did not succeed
C23_Witness ==
    /\ FailureEvent /\ last.event # "submit"
    /\ ~submitBtn.disabled
    /\ submitBtn.innerHTML = OriginalLabel
    /\ fields.name # <<>>

\* C24: each success sets one timer and each firing of it takes that timer away
\* and leaves every field at its default, whatever the fields held when it
\* fired, so that what the visitor typed since the success is discarded; timers
\* change in no other way; while the timer is pending the control is disabled,
\* no request is outstanding and no submit event comes; and, the clock running,
\* a pending timer fires.
C24_OneResetPerSuccess ==
    /\ [](TimerPending =>
            /\ Len(timers) = 1
            /\ submitBtn.disabled
            /\ listeners = <<>>)
    /\ [][ /\ (SuccessEvent' /\ last' # last) => Len(timers') = Len(timers) + 1
           /\ last'.event = "timer" =>
                 /\ Len(timers') = Len(timers) - 1
                 /\ fields' = DefaultFields
           /\ timers' # timers => (SuccessEvent' \/ last'.event = "timer")
           /\ TimerPending => last'.event # "submit" ]_vars
    /\ TimerPending ~> (last.event = "timer" /\ fields = DefaultFields)

\* the visitor has typed into the form while the timer of a success is pending
C24_Witness ==
    /\ TimerPending
    /\ last.event = "input"
    /\ fields.name # <<>> /\ fields.message # <<>>
    /\ submitBtn.disabled

====
